---- MODULE Spec2Model ----
(***************************************************************************)
(* Model of src/main.rs: the BitSet type and its member iterator, the      *)
(* "next combination" bit-trick iterator, remove_impossible_universes and  *)
(* the search loop of main.                                                *)
(*                                                                         *)
(* A u64 is modelled as the set of the positions of its 1-bits, a subset   *)
(* of 0 .. 63, because the values of a 64-bit word do not fit the integers *)
(* of the model checker.  The bitwise operators are the set operators, and *)
(* addition, shifts and comparison are defined on the positions as binary  *)
(* arithmetic defines them, with the word's width kept: a carry out of bit *)
(* 63 and a shift by 64 or more behave as the build makes them behave.     *)
(*                                                                         *)
(* The build is part of the state: debug_assertions is TRUE for a build    *)
(* with debug assertions and overflow checks (cargo's dev profile) and     *)
(* FALSE for one without (cargo's release profile), where debug_assert! is *)
(* compiled out and an overflowing shift masks its shift amount.           *)
(***************************************************************************)
EXTENDS Integers, Sequences, FiniteSets, TLC

\* ------------------------------------------------------------------ bounds

\* CombinationIter is explored for every (n, k) with n <= MaxN, k <= MaxN + 1,
\* and for the (n, k) of WideParams at the width of the word.
MaxN == 5
\* BitSetIter is explored for every BitSet within the low MaxBit bits (and a
\* few with high bits).
MaxBit == 5
\* A BitSet is iterated at most MaxRuns times.
MaxRuns == 2
\* remove_impossible_universes is explored for universes and pairs over
\* NElem elements and vectors of at most MaxLen universes.
NElem == 3
MaxLen == 3

\* ------------------------------------------------------------- u64 words

WordBits == 64
Bits == 0 .. (WordBits - 1)
Zero == {}
One == {0}
\* The result of an arithmetic operation that panicked (overflow checks on).
Overflow == {-1}

None == <<>>
Some(x) == <<x>>

\* The word with the bits of the (small) natural number m.
RECURSIVE MaskFrom(_, _)
MaskFrom(m, i) ==
  IF m = 0 THEN {}
  ELSE (IF m % 2 = 1 THEN {i} ELSE {}) \cup MaskFrom(m \div 2, i + 1)
Mask(m) == MaskFrom(m, 0)

\* The operators of u64.
And(a, b) == a \cap b
Or(a, b) == a \cup b
Xor(a, b) == (a \ b) \cup (b \ a)
Not(a) == Bits \ a
Shr(a, s) == {i - s : i \in {j \in a : j >= s}}
\* a < b: the highest bit where they differ is a bit of b.
Lt(a, b) == \E i \in b \ a : \A j \in a \ b : j < i
trailing_zeros(a) ==
  IF a = {} THEN WordBits ELSE CHOOSE i \in a : \A j \in a : i <= j
count_ones(a) == Cardinality(a)

\* Binary addition.  The carry into bit i is generated at a lower bit j (a bit
\* of both operands, g) and propagated by every bit between (a bit of either
\* operand, p).  The sum is the operands' bits without carry, each flipped
\* where a carry comes in; its bit WordBits is the carry out of the word.
CarryInto(g, p, i) ==
  \E j \in g : j < i /\ ((j + 1) .. (i - 1)) \subseteq p
Carries(g, p) ==
  IF g = {} THEN {} ELSE {i \in 1 .. WordBits : CarryInto(g, p, i)}
Sum(a, b) == Xor(Xor(a, b), Carries(a \cap b, a \cup b))

checked_add(a, b) ==
  \* u64::checked_add: None on overflow
  LET s == Sum(a, b) IN IF WordBits \in s THEN None ELSE Some(s)

Add(a, b, dbg) ==
  \* a + b: panics on overflow with overflow checks, wraps without
  LET s == Sum(a, b)
  IN  IF WordBits \in s THEN (IF dbg THEN Overflow ELSE s \ {WordBits}) ELSE s

Sub(a, b, dbg) ==
  \* a - b: panics on underflow with overflow checks, wraps without
  IF dbg /\ Lt(a, b) THEN Overflow
  ELSE Sum(a, Sum(Not(b), One) \ {WordBits}) \ {WordBits}

Shl(a, s, dbg) ==
  \* a << s: a shift by the width or more panics with overflow checks, and
  \* shifts by s modulo the width without
  IF s >= WordBits /\ dbg THEN Overflow
  ELSE {i + (s % WordBits) : i \in {j \in a : j + (s % WordBits) < WordBits}}

\* ---------------------------------------------------------------- BitSet

bitor(self, other) == Or(self, other)

\* impl BitAnd for BitSet
bitand(self, other) == And(self, other)

BitSet_len(self) == count_ones(self)

\* What a call returns: whether it panicked, the iterator after the call, and
\* the item returned (None or Some(x)).
Returned(self, item) == [panicked |-> FALSE, self |-> self, item |-> item]

into_iter(self) == self

BitSetIter_next_one_based(self, dbg) ==
  IF self = Zero THEN Returned(self, None)
  ELSE LET v == trailing_zeros(self)
           bit == Shl(One, v, dbg)
       IN  IF bit = Overflow THEN [panicked |-> TRUE, self |-> self, item |-> None]
           ELSE Returned(Xor(self, bit), Some(v + 1))

BitSetIter_next(self, dbg) ==
  IF self = Zero THEN Returned(self, None)
  ELSE LET v == trailing_zeros(self)
           bit == Shl(One, v, dbg)
       IN  IF bit = Overflow THEN [panicked |-> TRUE, self |-> self, item |-> None]
           ELSE Returned(Xor(self, bit), Some(v))

\* bitset.into_iter().collect::<Vec<_>>(), and the items of `for x in bitset`
RECURSIVE BitSetIter_drain(_, _, _)
BitSetIter_drain(it, acc, dbg) ==
  LET r == BitSetIter_next(it, dbg)
  IN  IF r.panicked \/ r.item = None THEN acc
      ELSE BitSetIter_drain(r.self, Append(acc, r.item[1]), dbg)
BitSet_collect(self, dbg) == BitSetIter_drain(into_iter(self), <<>>, dbg)

\* ------------------------------------------------------- CombinationIter

NoIter == [next_val |-> Zero, n |-> 0]
Panicked == [panicked |-> TRUE, self |-> NoIter, item |-> None]

k_shifted_one(k, dbg) == Shl(One, k, dbg)

k_trailing_ones(k, dbg) ==
  LET sh == Shl(One, k, dbg)
  IN  IF sh = Overflow THEN Overflow ELSE Sub(sh, One, dbg)

CombinationIter_new(n, k, dbg) ==
  IF dbg /\ ~(n >= k /\ n <= 65 /\ k > 0) THEN Panicked
  ELSE LET ones == k_trailing_ones(k, dbg)
       IN  IF ones = Overflow THEN Panicked
           ELSE Returned([next_val |-> ones, n |-> n], None)

repack_shift_one(x, val, one_bit) ==
  Or(x, Shr(Xor(x, val), trailing_zeros(one_bit) + 1))

repack(x, val, one_bit) ==
  Or(x, Shr(Xor(x, val), trailing_zeros(one_bit) + 2))

CombinationIter_next(self, dbg) ==
  IF self.next_val = Zero THEN Returned(self, None)
  ELSE
    LET val == self.next_val
        neg == Add(One, Not(val), dbg)
        one_bit == And(val, neg)
        sum == checked_add(val, one_bit)
    IN  IF neg = Overflow THEN Panicked
        ELSE IF sum = None
             THEN Returned([self EXCEPT !.next_val = Zero], Some(val))
        ELSE LET x == sum[1]
                 lim == Shl(One, self.n, dbg)
             IN  IF lim = Overflow THEN Panicked
                 ELSE IF Lt(x, lim)
                      THEN Returned([self EXCEPT !.next_val = repack(x, val, one_bit)],
                                    Some(val))
                      ELSE Returned([self EXCEPT !.next_val = Zero], Some(val))

\* ------------------------------------------- remove_impossible_universes

swap_remove(v, i) ==
  \* Vec::swap_remove: the last element takes the place of element i
  SubSeq([v EXCEPT ![i] = v[Len(v)]], 1, Len(v) - 1)

\* The body of `while i < universes.len()`, with i counted from 1, on the
\* loop's variables st = [universes, i]; it leaves them alone once the
\* loop's condition is false.
LoopBodyAdvancing(pair, st) ==
  \* (the body with i advanced after a swap_remove too)
  IF st.i <= Len(st.universes)
  THEN IF bitand(st.universes[st.i], pair) = pair
       THEN [universes |-> swap_remove(st.universes, st.i), i |-> st.i + 1]
       ELSE [universes |-> st.universes, i |-> st.i + 1]
  ELSE st

LoopBody(pair, st) ==
  IF st.i <= Len(st.universes)
  THEN IF bitand(st.universes[st.i], pair) = pair
       THEN [universes |-> swap_remove(st.universes, st.i), i |-> st.i]
       ELSE [universes |-> st.universes, i |-> st.i + 1]
  ELSE st

\* Four passes through the loop.
FourPasses(pair, st) ==
  LoopBody(pair, LoopBody(pair, LoopBody(pair, LoopBody(pair, st))))

\* The loop: passes through the body while its condition is true, within
\* `passes` passes (the first half of them, then the rest).
RECURSIVE RemoveLoop(_, _, _)
RemoveLoop(pair, st, passes) ==
  IF st.i > Len(st.universes) THEN st
  ELSE IF passes <= 4 THEN FourPasses(pair, st)
  ELSE RemoveLoop(pair, RemoveLoop(pair, st, passes \div 2),
                  passes - passes \div 2)

\* Every pass shortens the vector or advances i, so the loop's condition is
\* false after Len(universes) passes.
remove_impossible_universes(pair, universes) ==
  RemoveLoop(pair, [universes |-> universes, i |-> 1], Len(universes)).universes

\* ------------------------------------------------------------------ main

\* `for pair in five_steps { universes = remove_impossible_universes(...) }`
RECURSIVE FilterEach(_, _, _)
FilterEach(pairs, indices, universes) ==
  IF indices = <<>> THEN universes
  ELSE FilterEach(pairs, Tail(indices),
                  remove_impossible_universes(pairs[Head(indices) + 1], universes))

\* universes.iter().cloned().reduce(|acc, v| acc & v): the first element is
\* the accumulator and the closure is called on each of the others in turn.
\* st = [acc, i] is the accumulator and the position of the iterator.
ReduceStep(v, st) ==
  IF st.i <= Len(v)
  THEN [acc |-> bitand(st.acc, v[st.i]), i |-> st.i + 1]
  ELSE st

\* Four steps of the iteration.
FourSteps(v, st) == ReduceStep(v, ReduceStep(v, ReduceStep(v, ReduceStep(v, st))))

\* The iteration to the end of v, within `calls` calls of the closure (the
\* first half of them, then the rest).
RECURSIVE Fold(_, _, _)
Fold(v, st, calls) ==
  IF st.i > Len(v) THEN st
  ELSE IF calls <= 4 THEN FourSteps(v, st)
  ELSE Fold(v, Fold(v, st, calls \div 2), calls - calls \div 2)

reduce(v) ==
  IF v = <<>> THEN None
  ELSE Some(Fold(v, [acc |-> v[1], i |-> 2], Len(v) - 1).acc)

is_solution_strict(x) == x # None /\ BitSet_len(x[1]) > 2

is_solution_any(x) == x # None /\ BitSet_len(x[1]) >= 0

\* `Some(x) if x.len() >= 2`
is_solution(x) == x # None /\ BitSet_len(x[1]) >= 2

\* The line printed for a solution: the members of the first pair, of the
\* five pairs and of the final set.
SolutionLine(pairs, indices, x, dbg) ==
  <<BitSet_collect(pairs[1], dbg)>>
    \o [j \in 1 .. Len(indices) |-> BitSet_collect(pairs[indices[j] + 1], dbg)]
    \o <<BitSet_collect(x, dbg)>>

\* ----------------------------------------------------------------- state

VARIABLES
  pc,               \* where the program (or the caller of the operation) is
  debug_assertions, \* the build: TRUE with debug assertions and overflow checks
  n, k,             \* CombinationIter: the arguments of new
  self,             \* CombinationIter: the iterator (all_five_steps in main)
  yielded,          \* CombinationIter: the values next has returned, in order
  bitset,           \* BitSetIter: the BitSet that is iterated
  iter,             \* BitSetIter: the iterator's word
  out,              \* BitSetIter: the indices returned by this iteration
  prev_out,         \* BitSetIter: the indices returned by the iteration before
  runs,             \* BitSetIter: the number of iterations started
  pair, universes,  \* remove_impossible_universes: its arguments
  result,           \* remove_impossible_universes: the vector returned
  all_battery_pairs,     \* main: the local of that name
  all_battery_universes, \* main: the local of that name (the outer one)
  five_steps,       \* main: the quintuple of the loop's last iteration
  line,             \* main: the line that iteration printed (<<>>: none)
  n_lines           \* main: the number of lines printed so far

combVars == <<n, k, self, yielded>>
bitsVars == <<bitset, iter, out, prev_out, runs>>
removeVars == <<pair, universes, result>>
mainLocals == <<all_battery_pairs, all_battery_universes>>
mainVars == <<mainLocals, five_steps, line, n_lines>>
vars == <<pc, debug_assertions, combVars, bitsVars, removeVars, mainVars>>

CombIdle == n = 0 /\ k = 0 /\ self = NoIter /\ yielded = <<>>
BitsIdle == bitset = Zero /\ iter = Zero /\ out = <<>> /\ prev_out = <<>> /\ runs = 0
RemoveIdle == pair = Zero /\ universes = <<>> /\ result = <<>>
MainIdle == all_battery_pairs = <<>> /\ all_battery_universes = <<>> /\ five_steps = Zero /\ line = <<>> /\ n_lines = 0

\* ------------------------------------------- CombinationIter on its own

\* The (n, k) at the width of the word: valid ones (n = 63, n = 64), n = 65,
\* which the assertion of new admits, and n = 66, which it rejects.
WideParams ==
  { <<63, 1>>, <<63, 62>>, <<63, 63>>, <<64, 1>>, <<64, 63>>, <<64, 64>>,
    <<65, 1>>, <<65, 65>>, <<66, 1>>, <<66, 66>> }
CombParams == ((0 .. MaxN) \X (0 .. (MaxN + 1))) \cup WideParams

InitComb ==
  /\ pc = "start"
  /\ debug_assertions \in BOOLEAN
  /\ \E p \in CombParams : n = p[1] /\ k = p[2]
  /\ self = NoIter /\ yielded = <<>>
  /\ BitsIdle /\ RemoveIdle /\ MainIdle

\* let it = CombinationIter::new(n, k)
New ==
  /\ pc = "start"
  /\ \E r \in {CombinationIter_new(n, k, debug_assertions)} :
       IF r.panicked THEN pc' = "panic" /\ self' = self
       ELSE pc' = "iter" /\ self' = r.self
  /\ UNCHANGED <<debug_assertions, n, k, yielded, bitsVars, removeVars, mainVars>>

\* it.next(); pc is "ended" once a call has returned None
CallNext ==
  /\ pc \in {"iter", "ended"}
  /\ \E r \in {CombinationIter_next(self, debug_assertions)} :
       IF r.panicked THEN pc' = "panic" /\ UNCHANGED <<self, yielded>>
       ELSE /\ self' = r.self
            /\ pc' = IF r.item = None THEN "ended" ELSE "iter"
            /\ yielded' = IF r.item = None THEN yielded ELSE Append(yielded, r.item[1])
  /\ UNCHANGED <<debug_assertions, n, k, bitsVars, removeVars, mainVars>>

NextComb == New \/ CallNext
SpecComb == InitComb /\ [][NextComb]_vars

\* The values the spec allows for (n, k), and the ones it calls invalid.
ValidParams == 0 < k /\ k <= n /\ n <= 64
InvalidParams == k = 0 \/ k > n \/ n > 65

\* C(m, j), by the multiplicative formula on the smaller of j and m - j.
RECURSIVE BinomialUpTo(_, _)
BinomialUpTo(m, j) ==
  IF j = 0 THEN 1 ELSE (BinomialUpTo(m, j - 1) * (m - j + 1)) \div j
Binomial(m, j) ==
  IF j < 0 \/ j > m THEN 0
  ELSE BinomialUpTo(m, IF j <= m - j THEN j ELSE m - j)

Distinct(seq) == \A i, j \in 1 .. Len(seq) : i # j => seq[i] # seq[j]

\* What C1 asks of a drained enumerator.
AllCombinations ==
  /\ Len(yielded) = Binomial(n, k)
  /\ Distinct(yielded)
  /\ \A i \in 1 .. Len(yielded) :
       count_ones(yielded[i]) = k /\ yielded[i] \subseteq 0 .. (n - 1)

\* C1: for every n, k with 0 < k <= n <= 64, draining CombinationIter::new(n, k)
\* (calling next until it stops: it returns end of sequence, or the program
\* panics) has yielded exactly C(n, k) pairwise distinct values, each with k
\* bits set and none at a position >= n.
C1_DrainYieldsAllCombinations ==
  (ValidParams /\ pc \in {"ended", "panic"}) => AllCombinations

\* C1 below the width of the word (n <= 63), where it holds.
C1_Below64 ==
  (ValidParams /\ n < 64) =>
     /\ pc # "panic"
     /\ pc = "ended" => AllCombinations

\* C2: CombinationIter::new(4, 2) yields the bitmasks 3, 5, 6, 9, 10, 12 (the
\* subsets {0,1}, {0,2}, {1,2}, {0,3}, {1,3}, {2,3}) in that order and then
\* signals the end of the sequence.
FourChooseTwo == <<Mask(3), Mask(5), Mask(6), Mask(9), Mask(10), Mask(12)>>
C2_FourChooseTwoInOrder ==
  (n = 4 /\ k = 2) =>
     /\ pc # "panic"
     /\ Len(yielded) <= Len(FourChooseTwo)
     /\ yielded = SubSeq(FourChooseTwo, 1, Len(yielded))
     /\ pc = "ended" =>
          /\ yielded = FourChooseTwo
          /\ yielded = << {0, 1}, {0, 2}, {1, 2}, {0, 3}, {1, 3}, {2, 3} >>
C2_Witness == n = 4 /\ k = 2 /\ pc = "ended" /\ Len(yielded) = 6

\* C8: an enumerator with invalid parameters (k = 0, k > n or n > 65) is
\* rejected at construction: new panics, so no enumerator exists on which
\* next could return a value or an end of sequence.
C8_InvalidParamsRejected == InvalidParams => pc \in {"start", "panic"}

\* C9: for every valid (n, k) every call of next returns (a value or the end
\* of the sequence, never a panic); the state is the sentinel 0 only once the
\* enumerator is exhausted, that is after the call that returned the last
\* value; and once the state is 0 a call returns end of sequence.
C9_ExhaustsWithSentinel ==
  ValidParams =>
     /\ pc # "panic"
     /\ (pc \in {"iter", "ended"} /\ self.next_val = Zero) => yielded # <<>>
     /\ pc = "ended" => self.next_val = Zero

\* C9 below the width of the word (n <= 63), where it holds: the sentinel, and
\* the number of values returned never exceeds C(n, k), which bounds the calls
\* before the end of the sequence.
C9_Below64 ==
  (ValidParams /\ n < 64) =>
     /\ pc # "panic"
     /\ (pc \in {"iter", "ended"} /\ self.next_val = Zero) => yielded # <<>>
     /\ pc = "ended" => self.next_val = Zero
     /\ Len(yielded) <= Binomial(n, k)
     /\ (pc = "iter" /\ Len(yielded) = Binomial(n, k)) => self.next_val = Zero

\* C9, once exhausted: a call in state 0 returns end of sequence and leaves
\* the state 0 and the values returned as they are (no restart).
C9_NeverRestarts ==
  [][(pc \in {"iter", "ended"} /\ self.next_val = Zero)
       => (pc' = "ended" /\ self' = self /\ yielded' = yielded)]_vars

\* ------------------------------------------------ BitSetIter on its own

\* Every BitSet within the low MaxBit bits, and some with bits up to bit 63.
BitSetInputs ==
  (SUBSET (0 .. (MaxBit - 1)))
    \cup { {63}, {0, 63}, {31, 32}, {1, 62, 63}, Bits }

InitBits ==
  /\ pc = "idle"
  /\ debug_assertions \in BOOLEAN
  /\ bitset \in BitSetInputs
  /\ iter = Zero /\ out = <<>> /\ prev_out = <<>> /\ runs = 0
  /\ CombIdle /\ RemoveIdle /\ MainIdle

\* let it = bitset.into_iter(): BitSet is Copy, the iterator gets a copy of
\* the word
IntoIter ==
  /\ pc \in {"idle", "ended"}
  /\ runs < MaxRuns
  /\ iter' = into_iter(bitset)
  /\ prev_out' = out
  /\ out' = <<>>
  /\ runs' = runs + 1
  /\ pc' = "iterating"
  /\ UNCHANGED <<debug_assertions, bitset, combVars, removeVars, mainVars>>

\* it.next(); pc is "ended" once a call has returned None
IterNext ==
  /\ pc \in {"iterating", "ended"}
  /\ \E r \in {BitSetIter_next(iter, debug_assertions)} :
       IF r.panicked THEN pc' = "panic" /\ UNCHANGED <<iter, out>>
       ELSE /\ iter' = r.self
            /\ pc' = IF r.item = None THEN "ended" ELSE "iterating"
            /\ out' = IF r.item = None THEN out ELSE Append(out, r.item[1])
  /\ UNCHANGED <<debug_assertions, bitset, prev_out, runs, combVars, removeVars, mainVars>>

NextBits == IntoIter \/ IterNext
SpecBits == InitBits /\ [][NextBits]_vars

Ascending(seq) == \A i, j \in 1 .. Len(seq) : i < j => seq[i] < seq[j]
Members(seq) == {seq[i] : i \in 1 .. Len(seq)}

\* C3: iterating a BitSet yields the indices of its set bits, each once, in
\* strictly ascending order, and then ends (0b1011 yields [0, 1, 3], the
\* empty set nothing); the BitSet is not changed, and a second iteration
\* yields the same sequence.
C3_MembersAscending ==
  /\ pc # "panic"
  /\ Ascending(out)
  /\ Members(out) \subseteq bitset
  /\ pc = "iterating" =>
       \* what is still to come is what is not yet returned, all of it higher
       /\ iter = bitset \ Members(out)
       /\ \A i \in Members(out), j \in iter : i < j
  /\ pc = "ended" =>
       /\ Members(out) = bitset
       /\ Len(out) = count_ones(bitset)
       /\ bitset = Mask(11) => out = <<0, 1, 3>>
       /\ bitset = Zero => out = <<>>
       /\ runs >= 2 => out = prev_out
C3_Witness ==
  bitset = Mask(11) /\ pc = "ended" /\ runs = 2 /\ out = <<0, 1, 3>>

\* ------------------------------- remove_impossible_universes on its own

PairInputs == {p \in SUBSET (0 .. (NElem - 1)) : Cardinality(p) = 2}
\* The vectors of at most len universes over 0 .. NElem - 1.
RECURSIVE VectorsUpTo(_)
VectorsUpTo(len) ==
  IF len = 0 THEN {<<>>}
  ELSE LET shorter == VectorsUpTo(len - 1)
       IN  shorter \cup {Append(v, u) : v \in {w \in shorter : Len(w) = len - 1},
                                        u \in SUBSET (0 .. (NElem - 1))}
\* The spec's example: pair {0,1} over [{0,1,2,3}, {0,2,4,5}].
ExampleUniverses == << {0, 1, 2, 3}, {0, 2, 4, 5} >>

InitRemove ==
  /\ pc = "call"
  /\ debug_assertions \in BOOLEAN
  /\ \/ pair \in PairInputs /\ universes \in VectorsUpTo(MaxLen)
     \/ pair = {0, 1} /\ universes = ExampleUniverses
  /\ result = <<>>
  /\ CombIdle /\ BitsIdle /\ MainIdle

\* result = remove_impossible_universes(pair, universes)
CallRemove ==
  /\ pc = "call"
  /\ result' = remove_impossible_universes(pair, universes)
  /\ pc' = "returned"
  /\ UNCHANGED <<debug_assertions, pair, universes, combVars, bitsVars, mainVars>>

NextRemove == CallRemove
SpecRemove == InitRemove /\ [][NextRemove]_vars

Count(u, seq) == Cardinality({i \in 1 .. Len(seq) : seq[i] = u})

\* C4: remove_impossible_universes(p, U) returns, as a collection
\* irrespective of order, exactly the universes u of U with (u AND p) # p:
\* a universe with both elements of p is removed, every other universe is
\* kept with its multiplicity, none is added.  With p = {0,1} and
\* U = [{0,1,2,3}, {0,2,4,5}] the result is [{0,2,4,5}].
C4_RemovesExactlyContaining ==
  pc = "returned" =>
     /\ \A u \in Members(universes) \cup Members(result) :
          Count(u, result) = IF pair \subseteq u THEN 0 ELSE Count(u, universes)
     /\ (pair = {0, 1} /\ universes = ExampleUniverses) => result = << {0, 2, 4, 5} >>
\* The last universe contains the pair and is swapped into the place of a
\* removed one.
C4_Witness ==
  /\ pc = "returned"
  /\ Len(universes) = 3
  /\ pair \subseteq universes[1] /\ pair \subseteq universes[3]
  /\ ~(pair \subseteq universes[2])
  /\ result = <<universes[2]>>

\* ------------------------------------------------------ the run of main

Init ==
  /\ pc = "start"
  /\ debug_assertions \in BOOLEAN
  /\ self = NoIter
  /\ n = 0 /\ k = 0 /\ yielded = <<>>
  /\ BitsIdle /\ RemoveIdle /\ MainIdle

\* let all_battery_pairs = CombinationIter::new(8, 2).collect(): the iterator
\* is made (self is the iterator being drained)
MakePairs ==
  /\ pc = "start"
  /\ \E made \in {CombinationIter_new(8, 2, debug_assertions)} :
       IF made.panicked THEN pc' = "panic" /\ self' = self
       ELSE pc' = "pairs" /\ self' = made.self
  /\ UNCHANGED <<debug_assertions, n, k, yielded, bitsVars, removeVars, mainVars>>

\* One step of that collect: the next pair is pushed; at the end of the
\* sequence main goes on to all_battery_pairs[0] and CombinationIter::new(8, 4)
CollectPairs ==
  /\ pc = "pairs"
  /\ \E r \in {CombinationIter_next(self, debug_assertions)} :
     \E made \in {CombinationIter_new(8, 4, debug_assertions)} :
       IF r.panicked
       THEN pc' = "panic" /\ UNCHANGED <<self, all_battery_pairs>>
       ELSE IF r.item # None
       THEN /\ pc' = "pairs"
            /\ self' = r.self
            /\ all_battery_pairs' = Append(all_battery_pairs, r.item[1])
       ELSE IF all_battery_pairs = <<>> \/ made.panicked
       THEN pc' = "panic" /\ UNCHANGED <<self, all_battery_pairs>>
       ELSE pc' = "universes" /\ self' = made.self /\ UNCHANGED all_battery_pairs
  /\ UNCHANGED <<debug_assertions, n, k, yielded, bitsVars, removeVars,
                 all_battery_universes, five_steps, line, n_lines>>

\* One step of the collect of the universes: the next universe is pushed; at
\* the end of the sequence the universes with the first pair are removed and
\* all_five_steps is made
CollectUniverses ==
  /\ pc = "universes"
  /\ \E r \in {CombinationIter_next(self, debug_assertions)} :
     \E made \in {CombinationIter_new(Len(all_battery_pairs), 5, debug_assertions)} :
       IF r.panicked
       THEN pc' = "panic" /\ UNCHANGED <<self, all_battery_universes>>
       ELSE IF r.item # None
       THEN /\ pc' = "universes"
            /\ self' = r.self
            /\ all_battery_universes' = Append(all_battery_universes, r.item[1])
       ELSE IF made.panicked
       THEN pc' = "panic" /\ UNCHANGED <<self, all_battery_universes>>
       ELSE /\ pc' = "loop"
            /\ self' = made.self
            /\ all_battery_universes' =
                 remove_impossible_universes(all_battery_pairs[1], all_battery_universes)
  /\ UNCHANGED <<debug_assertions, n, k, yielded, bitsVars, removeVars,
                 all_battery_pairs, five_steps, line, n_lines>>

\* One iteration of `for five_steps in all_five_steps`: the next quintuple is
\* taken, the universes are filtered by its pairs and reduced, and a solution
\* is printed; or the iterator is exhausted and main returns.
LoopIteration ==
  /\ pc = "loop"
  /\ \E r \in {CombinationIter_next(self, debug_assertions)} :
       IF r.panicked
       THEN pc' = "panic" /\ UNCHANGED <<self, five_steps, line, n_lines>>
       ELSE
         /\ self' = r.self
         /\ IF r.item = None
            THEN pc' = "done" /\ UNCHANGED <<five_steps, line, n_lines>>
            ELSE
              \E indices \in {BitSet_collect(r.item[1], debug_assertions)} :
                IF \E j \in 1 .. Len(indices) : indices[j] >= Len(all_battery_pairs)
                THEN \* all_battery_pairs[pair] is out of bounds
                     pc' = "panic" /\ UNCHANGED <<five_steps, line, n_lines>>
                ELSE
                  \E left \in {FilterEach(all_battery_pairs, indices,
                                           all_battery_universes)} :
                  \E x \in {reduce(left)} :
                    /\ pc' = "loop"
                    /\ five_steps' = r.item[1]
                    /\ IF is_solution(x)
                       THEN /\ line' = SolutionLine(all_battery_pairs, indices, x[1],
                                                    debug_assertions)
                            /\ n_lines' = n_lines + 1
                       ELSE /\ line' = <<>>
                            /\ n_lines' = n_lines
  /\ UNCHANGED <<debug_assertions, n, k, yielded, bitsVars, removeVars, mainLocals>>

Next == MakePairs \/ CollectPairs \/ CollectUniverses \/ LoopIteration
Spec == Init /\ [][Next]_vars

\* The possible sets of working batteries: the 4-element subsets of {0..7}.
Hypotheses == {w \in SUBSET (0 .. 7) : Cardinality(w) = 4}

\* The six trial pairs of the last iteration: the first pair and the pairs
\* whose indices are the members of five_steps.
TrialPairs ==
  {all_battery_pairs[1]} \cup {all_battery_pairs[i + 1] : i \in five_steps}
\* The hypotheses in which every one of the six trials fails, and the
\* batteries that work in all of them.
SurvivingOf(trials) == {w \in Hypotheses : \A p \in trials : ~(p \subseteq w)}
CommonTo(ws) == {e \in 0 .. 7 : \A w \in ws : e \in w}

\* C5: for every solution line printed (the first pair, five pairs, the final
\* set G) and every possible set W of four working batteries, W contains both
\* batteries of one of the six trial pairs or W contains all of G; and G has
\* two batteries for the seventh trial.
C5_SeventhTrialSucceeds ==
  line # <<>> =>
     /\ Len(line) = 7
     /\ Len(line[7]) >= 2
     /\ \A w \in Hypotheses :
          \/ \E j \in 1 .. 6 : Members(line[j]) \subseteq w
          \/ Members(line[7]) \subseteq w
C5_Witness ==
  /\ line # <<>>
  /\ \E w \in Hypotheses : \A j \in 1 .. 6 : ~(Members(line[j]) \subseteq w)

\* C6: an iteration of the loop prints a solution line if and only if the
\* universes left by the first pair's filter and the five pairs' filters are
\* not none and have at least two batteries in common, and the final set
\* printed is exactly the set of the batteries they have in common (at least
\* two, all in 0..7).  A quintuple that leaves no universe prints nothing.
C6_PrintedIffTwoCommon ==
  five_steps # Zero =>
     \A trials \in {TrialPairs} : \A left \in {SurvivingOf(trials)} :
     \A common \in {CommonTo(left)} :
       /\ line # <<>> <=> (left # {} /\ Cardinality(common) >= 2)
       /\ line # <<>> =>
            /\ Len(line) = 7
            /\ Members(line[7]) = common
            /\ Len(line[7]) = Cardinality(common)
            /\ Len(line[7]) >= 2
            /\ Members(line[7]) \subseteq 0 .. 7
C6_Witness ==
  /\ five_steps # Zero /\ line # <<>>
  /\ Cardinality(CommonTo(SurvivingOf(TrialPairs))) = 2
  /\ n_lines = 1

\* C7: the complete run (all the quintuples of the 28 pairs) has printed at
\* least one solution line when main returns.
C7_RunPrintsASolution == pc = "done" => n_lines >= 1
C7_Witness == pc = "done" /\ n_lines >= 1 /\ Len(all_battery_pairs) = 28

\* C10: no solution line has the first pair {0,1} (index 0) among its five
\* pairs: the six trial pairs of a printed solution are pairwise distinct.
C10_FirstPairNotRepeated ==
  line # <<>> =>
     /\ 0 \notin five_steps
     /\ \A j \in 2 .. 6 : line[j] # line[1]
     /\ \A i, j \in 1 .. 6 : i # j => line[i] # line[j]
C10_Witness ==
  /\ line # <<>> /\ n_lines >= 2
  /\ line[1] = <<0, 1>>
  /\ Cardinality(five_steps) = 5

====
